---- MODULE Spec2Model ----
(***************************************************************************)
(* Token lifecycle of the BIM Portal Python client: the TokenManager       *)
(* (auth/token_manager.py), the two AuthService implementations            *)
(* (client/auth/auth_service_impl.py, exception-typed, and                 *)
(* auth/auth_service_impl.py, GUID-scoped) and the request executor        *)
(* _make_authenticated_request (client/base_client.py and                  *)
(* enhanced_bim_client.py, textually the same loop).                       *)
(*                                                                         *)
(* Time is counted in minutes.  Access and refresh tokens are the serial   *)
(* numbers the identity server issued them under (1, 2, ...), so a larger  *)
(* number is a newer token.  None (0) is Python's None.                    *)
(***************************************************************************)
EXTENDS Integers, FiniteSets, Sequences, TLC

\* ------------------------------------------------------------------ bounds
NumThreads == 2
MaxOps == 2
MaxTime == 1
MaxIssued == 2
MaxRetryLimit == 1
MaxTMToken == 1
MaxClears == 2

\* ------------------------------------------------------- program constants
None == 0
TOKEN_REFRESH_MARGIN_MINUTES == 5
AUTH_RETRY_LIMIT == 1
TOKEN_REFRESH_MARGIN == TOKEN_REFRESH_MARGIN_MINUTES

Threads == 1..NumThreads

VARIABLES
    tm,           \* TokenManager fields: access, refresh, expires
    now,          \* datetime.now(timezone.utc), in minutes
    tmRes,        \* result of the last direct is_token_expiring call
    tmIn,         \* argument of the last direct set_token call since the last clear
    tmClears,     \* direct clear_tokens calls since the last set_token call
    tmLockHeld,   \* TokenManager._lock is held although no operation is running
    variant,      \* "typed" (client/auth) or "guid" (auth) AuthService
    hasUser,      \* AuthService.username is set
    hasPass,      \* AuthService.password is set
    raiseFlag,    \* raise_on_unexpected_status
    retryLimit,   \* AUTH_RETRY_LIMIT of this run
    authLock,     \* AuthService._lock: holder thread or None
    issued,       \* serial number of the last token pair the server issued
    ops,          \* top-level operations started so far
    handed,       \* newest token get_valid_token has returned to anyone
    firstLogin,   \* the server's answer to the first login request (observed runs)
    loginCount,   \* login requests sent so far (observed runs)
    pc,           \* per thread: position in the code
    op,           \* per thread: "none", "gvt" or "req"
    attempt,      \* per thread: loop variable of _make_authenticated_request
    hdr,          \* per thread: token of the Authorization header, or None
    calls,        \* per thread: resource HTTP calls of the current request
    all401,       \* per thread: every HTTP answer of the request was 401
    last,         \* per thread: answer to the last resource call of the request
    rejected,     \* per thread: a login of the unfinished request was answered 401
    ret,          \* per thread: outcome of the last get_valid_token call
    rresp,        \* per thread: refresh response of the get_valid_token call
    lresp,        \* per thread: login response of the get_valid_token call
    res           \* per thread: outcome of the last request

cfgVars == <<variant, hasUser, hasPass, raiseFlag, retryLimit>>
callVars == <<rresp, lresp>>
reqVars == <<attempt, calls, all401, last, rejected>>
thVars == <<pc, op, hdr, ret, res, callVars, reqVars>>
glVars == <<authLock, issued, ops, handed, firstLogin, loginCount>>
tmVars == <<tmRes, tmIn, tmClears, tmLockHeld>>
vars == <<tm, now, tmVars, cfgVars, glVars, thVars>>

\* ------------------------------------------------------------ TokenManager

EmptyStore == [access |-> None, refresh |-> None, expires |-> None]

\* set_token, JWTTokenPublicDto branch: the three fields of the DTO as they are.
SetTokenDto(dto) ==
    [access |-> dto.token, refresh |-> dto.refreshToken, expires |-> dto.validTill]

\* set_token, dict branch, on store s: token and refreshToken by dict.get; the
\* expiry from validTill when it is there (the ISO string stands for the
\* instant it denotes), else from the exp claim of the decoded access token.
\* A token that decodes without exp claim, or no token at all, leaves the
\* expiry as it was; a token that does not decode sets it to None.
SetTokenDict(s, d) ==
    [access |-> d.token,
     refresh |-> d.refreshToken,
     expires |-> IF d.validTill # None THEN d.validTill
                 ELSE IF d.token # None
                      THEN CASE d.jwt = "exp" -> d.exp
                             [] d.jwt = "noexp" -> s.expires
                             [] OTHER -> None
                      ELSE s.expires]

ClearTokens_Noop == tm

ClearTokens_KeepRefresh == [EmptyStore EXCEPT !.refresh = tm.refresh]

\* clear_tokens
ClearTokens == EmptyStore

IsTokenExpiring_Always(s, t) == TRUE

IsTokenExpiring_Strict(s, t) ==
    IF s.access = None \/ s.expires = None
    THEN TRUE
    ELSE s.expires < t + TOKEN_REFRESH_MARGIN

\* is_token_expiring at time t
IsTokenExpiring(s, t) ==
    IF s.access = None \/ s.expires = None
    THEN TRUE
    ELSE s.expires <= t + TOKEN_REFRESH_MARGIN

\* ------------------------------------------------- the identity endpoints

NoResp == [kind |-> "none", token |-> None, refreshToken |-> None, validTill |-> None]

\* Outcomes of requests.post other than a 200 with a parseable token payload:
\* a 200 whose body is no JSON or does not validate, 401, 403, another status,
\* ConnectionError, Timeout.
FailKinds == {"badjson", "badschema", "s401", "s403", "s500", "conn", "timeout"}

Failure(k) == [NoResp EXCEPT !.kind = k]

\* validTill of a token payload: missing, on the refresh margin, or one minute
\* outside it.
ValidTills(t) == {None, t + TOKEN_REFRESH_MARGIN, t + TOKEN_REFRESH_MARGIN + 1}

\* JWTTokenPublicDto.model_validate(response.json()): every field is optional.
TokenDtos(t, n) ==
    {[kind |-> "ok", token |-> tk, refreshToken |-> rf, validTill |-> vt] :
        tk \in {None, n}, rf \in {None, n}, vt \in ValidTills(t)}

\* Every answer of an identity endpoint.
AuthResponses ==
    {Failure(k) : k \in FailKinds}
        \cup (IF issued < MaxIssued THEN TokenDtos(now, issued + 1) ELSE {})

\* The answers of the concurrent runs: complete token payloads, a rejection
\* and a connection failure.
ConcResponses ==
    {Failure(k) : k \in {"s401", "conn"}}
        \cup (IF issued < MaxIssued
              THEN {r \in TokenDtos(now, issued + 1) :
                        r.token # None /\ r.refreshToken # None /\ r.validTill # None}
              ELSE {})

IssuedAfter(r) == IF r.kind = "ok" THEN issued + 1 ELSE issued

\* ------------------------------------------------------------- exceptions

handle_requests_exception_AsAuth(e) ==
    CASE e \in {"conn", "timeout", "http401", "http403"} -> "AuthenticationError"
      [] e = "http500" -> "APIError"
      [] OTHER -> "NetworkError"

\* handle_requests_exception: the BIMPortalError a requests exception becomes.
handle_requests_exception(e) ==
    CASE e = "conn" -> "NetworkError"
      [] e = "timeout" -> "NetworkError"
      [] e \in {"http401", "http403"} -> "AuthenticationError"
      [] e = "http500" -> "APIError"
      [] OTHER -> "NetworkError"

\* create_auth_error_from_response: 401 is InvalidCredentialsError, the rest
\* AuthenticationError carrying the status.
create_auth_error_from_response(k) ==
    IF k = "s401" THEN "InvalidCredentialsError" ELSE "AuthenticationError"

\* response.status_code of an answer that has one (s500 stands for every
\* status other than 200, 401 and 403).
StatusCode(k) ==
    CASE k = "s401" -> 401
      [] k = "s403" -> 403
      [] k = "s500" -> 500
      [] OTHER -> None

AuthErrorStatus_Dropped(k) == None

\* status_code of the error create_auth_error_from_response builds:
\* InvalidCredentialsError is built without one.
AuthErrorStatus(k) == IF k = "s401" THEN None ELSE StatusCode(k)

\* except AuthenticationError in _get_auth_headers: the typed service's
\* AuthenticationError with its subclasses, the GUID service's own class.
CaughtByGetAuthHeaders(e) ==
    IF variant = "typed"
    THEN e \in {"AuthenticationError", "InvalidCredentialsError", "TokenExpiredError"}
    ELSE e = "AuthenticationError"

\* -------------------------------------------------------------- AuthService

InitRet == [kind |-> "init", tok |-> None, err |-> "", status |-> None]
RetToken(tok) ==
    IF tok = None THEN [kind |-> "none", tok |-> None, err |-> "", status |-> None]
    ELSE [kind |-> "tok", tok |-> tok, err |-> "", status |-> None]
\* An exception of class e whose status_code is st.
RetRaiseStatus(e, st) == [kind |-> "raise", tok |-> None, err |-> e, status |-> st]
RetRaise(e) == RetRaiseStatus(e, None)

NoRes == [kind |-> "none", what |-> ""]

Configured_Either == hasUser \/ hasPass

\* not (not self.username or not self.password)
Configured == hasUser /\ hasPass

LockFree_NoLock == TRUE

\* with self._lock: the lock can be taken
LockFree == authLock = None

Max(a, b) == IF a >= b THEN a ELSE b

\* get_valid_token ends for thread t with outcome r; inside a request the
\* caller is _get_auth_headers, which builds the headers of this attempt.
Released_Leak(t) == authLock

\* Leaving the `with self._lock` block of get_valid_token, by return or by
\* exception: the lock is free again if t held it.
Released(t) == IF authLock = t THEN None ELSE authLock

AuthHeader_Cached(t, r) == IF hdr[t] # None THEN hdr[t] ELSE r.tok

\* _get_auth_headers: the Authorization header built from the outcome r of
\* this attempt's get_valid_token call; None when no header is set.
AuthHeader(t, r) == IF r.kind = "tok" THEN r.tok ELSE None

Return(t, r) ==
    /\ ret' = [ret EXCEPT ![t] = r]
    /\ rresp' = [rresp EXCEPT ![t] = NoResp]
    /\ lresp' = [lresp EXCEPT ![t] = NoResp]
    /\ authLock' = Released(t)
    /\ handed' = IF r.kind = "tok" THEN Max(handed, r.tok) ELSE handed
    /\ IF op[t] = "gvt"
       THEN /\ pc' = [pc EXCEPT ![t] = "idle"]
            /\ UNCHANGED <<hdr, res>>
       ELSE IF r.kind = "raise" /\ ~CaughtByGetAuthHeaders(r.err)
            THEN /\ pc' = [pc EXCEPT ![t] = "idle"]
                 /\ res' = [res EXCEPT ![t] = [kind |-> "raise", what |-> r.err]]
                 /\ UNCHANGED hdr
            ELSE /\ pc' = [pc EXCEPT ![t] = "http"]
                 /\ hdr' = [hdr EXCEPT ![t] = AuthHeader(t, r)]
                 /\ UNCHANGED res

\* The thread's local variables at the start of a top-level call; threads
\* are numbered in the order of their first call.
StartCall(t, o) ==
    /\ pc[t] = "idle"
    /\ ops < MaxOps
    /\ \A u \in Threads : u < t => op[u] # "none"
    /\ ops' = ops + 1
    /\ op' = [op EXCEPT ![t] = o]
    /\ pc' = [pc EXCEPT ![t] = "gvt_lock"]
    /\ attempt' = [attempt EXCEPT ![t] = 0]
    /\ calls' = [calls EXCEPT ![t] = 0]
    /\ all401' = [all401 EXCEPT ![t] = TRUE]
    /\ last' = [last EXCEPT ![t] = "none"]
    /\ rejected' = [rejected EXCEPT ![t] = FALSE]
    /\ hdr' = [hdr EXCEPT ![t] = None]
    /\ res' = [res EXCEPT ![t] = NoRes]
    /\ ret' = [ret EXCEPT ![t] = InitRet]
    /\ UNCHANGED <<tm, now, tmVars, cfgVars, authLock, issued, handed, firstLogin,
                   loginCount, callVars>>

\* A caller invokes get_valid_token directly.
StartGvt(t) == StartCall(t, "gvt")

\* with self._lock, and the credentials check under it.
Enter(t) ==
    /\ pc[t] = "gvt_lock"
    /\ LockFree
    /\ IF ~Configured
       THEN Return(t, RetToken(None))
       ELSE /\ authLock' = t
            /\ pc' = [pc EXCEPT ![t] = "gvt_check"]
            /\ ret' = [ret EXCEPT ![t] = InitRet]
            /\ UNCHANGED <<handed, hdr, res, callVars>>
    /\ UNCHANGED <<tm, now, tmVars, cfgVars, issued, ops, firstLogin, loginCount,
                   op, reqVars>>

\* if not self._token_manager.is_token_expiring()
CheckExpiring(t) ==
    /\ pc[t] = "gvt_check"
    /\ pc' = [pc EXCEPT ![t] =
                IF IsTokenExpiring(tm, now) THEN "gvt_refresh" ELSE "gvt_ret"]
    /\ UNCHANGED <<tm, now, tmVars, cfgVars, glVars, op, hdr, ret, res, callVars,
                   reqVars>>

Seen401(t, r) ==
    IF op[t] = "req" THEN [all401 EXCEPT ![t] = @ /\ r.kind = "s401"] ELSE all401

\* _refresh_token up to requests.post, answered by one of R: without a
\* refresh token the typed service raises TokenExpiredError (caught by
\* get_valid_token), the GUID service returns False; either way the login
\* follows.
RefreshSend(t, R) ==
    /\ pc[t] = "gvt_refresh"
    /\ IF tm.refresh = None
       THEN /\ pc' = [pc EXCEPT ![t] = "gvt_login"]
            /\ UNCHANGED <<rresp, issued>>
       ELSE \E r \in R :
            /\ rresp' = [rresp EXCEPT ![t] = r]
            /\ issued' = IssuedAfter(r)
            /\ pc' = [pc EXCEPT ![t] = "refresh_wait"]
    /\ UNCHANGED <<tm, now, tmVars, cfgVars, authLock, ops, handed, firstLogin,
                   loginCount, op, hdr, ret, res, lresp, reqVars>>

\* What _refresh_token does with the response, per service:
\* "set" stores the DTO and returns True, "login" falls through to _login,
\* "raise" leaves get_valid_token with an exception; clear says whether
\* clear_tokens ran.
RefreshOutcome(k) ==
    IF variant = "typed"
    THEN CASE k = "ok" -> [go |-> "set", clear |-> FALSE, err |-> ""]
           [] k \in {"badjson", "badschema"} ->
                [go |-> "login", clear |-> FALSE, err |-> "TokenExpiredError"]
           [] k \in {"s401", "s403"} ->
                [go |-> "login", clear |-> TRUE, err |-> "TokenExpiredError"]
           [] k = "s500" ->
                [go |-> "raise", clear |-> TRUE, err |-> "AuthenticationError"]
           [] OTHER ->
                [go |-> "raise", clear |-> FALSE, err |-> handle_requests_exception(k)]
    ELSE CASE k = "ok" -> [go |-> "set", clear |-> FALSE, err |-> ""]
           [] k = "badschema" ->
                [go |-> "raise", clear |-> FALSE, err |-> "ValidationError"]
           [] k \in {"s401", "s403", "s500"} ->
                [go |-> "login", clear |-> TRUE, err |-> ""]
           [] OTHER -> [go |-> "login", clear |-> FALSE, err |-> ""]

\* What _login does with the response, per service; a False from the GUID
\* service's _login makes get_valid_token raise its AuthenticationError.
LoginOutcome(k) ==
    IF variant = "typed"
    THEN CASE k = "ok" -> [go |-> "set", clear |-> FALSE, err |-> ""]
           [] k \in {"badjson", "badschema"} ->
                [go |-> "raise", clear |-> FALSE, err |-> "AuthenticationError"]
           [] k \in {"s401", "s403", "s500"} ->
                [go |-> "raise", clear |-> TRUE,
                 err |-> create_auth_error_from_response(k)]
           [] OTHER ->
                [go |-> "raise", clear |-> TRUE, err |-> handle_requests_exception(k)]
    ELSE CASE k = "ok" -> [go |-> "set", clear |-> FALSE, err |-> ""]
           [] k = "badschema" ->
                [go |-> "raise", clear |-> FALSE, err |-> "ValidationError"]
           [] OTHER -> [go |-> "raise", clear |-> TRUE, err |-> "AuthenticationError"]

\* status_code of the exception _refresh_token raises for the response: only
\* the typed service's AuthenticationError for a status other than 401/403
\* has one.
RefreshErrorStatus(k) ==
    IF variant = "typed" /\ k = "s500" THEN StatusCode(k) ELSE None

\* status_code of the exception _login raises for the response.
LoginErrorStatus(k) ==
    IF variant = "typed" /\ k \in {"s401", "s403", "s500"}
    THEN AuthErrorStatus(k)
    ELSE None

\* The store after an authentication response was handled.
StoreAfter(o, r) ==
    IF o.go = "set" THEN SetTokenDto(r)
    ELSE IF o.clear THEN ClearTokens ELSE tm

\* _refresh_token from the response on.
RefreshDone(t) ==
    /\ pc[t] = "refresh_wait"
    /\ LET r == rresp[t]
           o == RefreshOutcome(r.kind)
       IN /\ tm' = StoreAfter(o, r)
          /\ all401' = Seen401(t, r)
          /\ IF o.go = "raise"
             THEN Return(t, RetRaiseStatus(o.err, RefreshErrorStatus(r.kind)))
             ELSE /\ pc' = [pc EXCEPT ![t] =
                              IF o.go = "set" THEN "gvt_ret" ELSE "gvt_login"]
                  /\ UNCHANGED <<authLock, handed, ret, hdr, res, callVars>>
    /\ UNCHANGED <<now, tmVars, cfgVars, issued, ops, firstLogin, loginCount, op,
                   attempt, calls, last, rejected>>

\* _login up to requests.post, answered by one of R; observed runs keep the
\* answer to the first login request.
LoginCall(t, R, observed) ==
    /\ pc[t] = "gvt_login"
    /\ \E r \in R :
        /\ lresp' = [lresp EXCEPT ![t] = r]
        /\ issued' = IssuedAfter(r)
        /\ firstLogin' = IF observed /\ loginCount = 0 THEN r ELSE firstLogin
    /\ loginCount' = IF observed THEN loginCount + 1 ELSE loginCount
    /\ pc' = [pc EXCEPT ![t] = "login_wait"]
    /\ UNCHANGED <<tm, now, tmVars, cfgVars, authLock, ops, handed, op, hdr, ret,
                   res, rresp, reqVars>>

LoginSend(t, R) == LoginCall(t, R, FALSE)

LoginSendObserved(t, R) == LoginCall(t, R, TRUE)

\* Inside a request, the request goes on after get_valid_token handled an
\* authentication response with outcome o: the outcome is no exception, or
\* one that _get_auth_headers catches.
Continues(t, o) ==
    op[t] = "req" /\ (o.go = "raise" => CaughtByGetAuthHeaders(o.err))

\* _login from the response on; observed runs keep whether a login of the
\* request was answered 401.
LoginHandled(t, observed) ==
    /\ pc[t] = "login_wait"
    /\ LET r == lresp[t]
           o == LoginOutcome(r.kind)
       IN /\ tm' = StoreAfter(o, r)
          /\ all401' = Seen401(t, r)
          /\ rejected' = [rejected EXCEPT ![t] =
                            IF observed /\ Continues(t, o)
                            THEN @ \/ r.kind = "s401"
                            ELSE FALSE]
          /\ IF o.go = "raise"
             THEN Return(t, RetRaiseStatus(o.err, LoginErrorStatus(r.kind)))
             ELSE /\ pc' = [pc EXCEPT ![t] = "gvt_ret"]
                  /\ UNCHANGED <<authLock, handed, ret, hdr, res, callVars>>
    /\ UNCHANGED <<now, tmVars, cfgVars, issued, ops, firstLogin, loginCount, op,
                   attempt, calls, last>>

LoginDone(t) == LoginHandled(t, TRUE)

LoginDoneQuiet(t) == LoginHandled(t, FALSE)

\* return self._token_manager.get_access_token()
GetAccessToken(t) ==
    /\ pc[t] = "gvt_ret"
    /\ Return(t, RetToken(tm.access))
    /\ UNCHANGED <<tm, now, tmVars, cfgVars, issued, ops, firstLogin, loginCount,
                   op, reqVars>>

\* ------------------------------------------------- _make_authenticated_request

\* Every answer of the resource endpoint: a status, or a transport error.
ResourceStatuses == {"s200", "s401", "s403", "s500", "neterr"}

\* The answers of the concurrent runs.
ConcStatuses == {"s200", "s401", "neterr"}

IsFinalAttempt_OffByOne(a) == a + 1 >= retryLimit

IsFinalAttempt_Late(a) == a > retryLimit

\* if attempt >= AUTH_RETRY_LIMIT
IsFinalAttempt(a) == a >= retryLimit

NextAttempt_Same(a) == a

\* for attempt in range(AUTH_RETRY_LIMIT + 1): the loop variable of the
\* iteration after iteration a.
NextAttempt(a) == a + 1

\* for attempt in range(AUTH_RETRY_LIMIT + 1): after iteration a the loop has
\* another iteration.
LoopContinues(a) == a + 1 <= retryLimit

\* A caller invokes _make_authenticated_request: attempt 0 of the loop.
StartRequest(t) == StartCall(t, "req")

\* How one iteration of the loop ends for a response (or transport error) s:
\* "return" the response, "raise" to the caller, or go on to the next
\* iteration, after clear_tokens when clear is set.  raise_for_status raises
\* httpx.HTTPStatusError, an httpx.HTTPError, inside the try block.
AttemptOutcome(s, a) ==
    IF s \in {"s401", "s403"}
    THEN IF IsFinalAttempt(a)
         THEN IF raiseFlag
              THEN [go |-> "raise", clear |-> FALSE, what |-> "HTTPStatusError"]
              ELSE [go |-> "return", clear |-> FALSE, what |-> s]
         ELSE [go |-> "next", clear |-> TRUE, what |-> ""]
    ELSE IF s = "neterr"
    THEN IF IsFinalAttempt(a)
         THEN [go |-> "raise", clear |-> FALSE, what |-> "HTTPError"]
         ELSE [go |-> "next", clear |-> FALSE, what |-> ""]
    ELSE IF raiseFlag /\ s = "s500"
    THEN IF IsFinalAttempt(a)
         THEN [go |-> "raise", clear |-> FALSE, what |-> "HTTPStatusError"]
         ELSE [go |-> "next", clear |-> FALSE, what |-> ""]
    ELSE [go |-> "return", clear |-> FALSE, what |-> s]

\* self._httpx_client.request(...), answered by one of S, and the rest of
\* the loop body; the loop is for attempt in range(AUTH_RETRY_LIMIT + 1).
\* Observed runs keep the answer.
HttpAttempt(t, S, observed) ==
    /\ pc[t] = "http"
    /\ \E s \in S :
        LET o == AttemptOutcome(s, attempt[t])
        IN /\ calls' = [calls EXCEPT ![t] = @ + 1]
           /\ all401' = [all401 EXCEPT ![t] = @ /\ s = "s401"]
           /\ last' = [last EXCEPT ![t] = IF observed THEN s ELSE @]
           /\ rejected' = [rejected EXCEPT ![t] =
                            @ /\ o.go = "next" /\ LoopContinues(attempt[t])]
           /\ tm' = IF o.clear THEN ClearTokens ELSE tm
           /\ IF o.go = "next"
              THEN IF LoopContinues(attempt[t])
                   THEN /\ attempt' = [attempt EXCEPT ![t] = NextAttempt(@)]
                        /\ pc' = [pc EXCEPT ![t] = "gvt_lock"]
                        /\ UNCHANGED res
                   ELSE /\ res' = [res EXCEPT ![t] =
                                [kind |-> "raise", what |-> "RuntimeError"]]
                        /\ pc' = [pc EXCEPT ![t] = "idle"]
                        /\ UNCHANGED attempt
              ELSE /\ res' = [res EXCEPT ![t] = [kind |-> o.go, what |-> o.what]]
                   /\ pc' = [pc EXCEPT ![t] = "idle"]
                   /\ UNCHANGED attempt
    /\ UNCHANGED <<now, tmVars, cfgVars, glVars, op, hdr, ret, callVars>>

HttpCall(t, S) == HttpAttempt(t, S, TRUE)

HttpCallQuiet(t, S) == HttpAttempt(t, S, FALSE)

\* ------------------------------------------------------------------- clock

Tick ==
    /\ now < MaxTime
    /\ now' = now + 1
    /\ tmRes' = "none"
    /\ UNCHANGED <<tm, tmIn, tmClears, tmLockHeld, cfgVars, glVars, thVars>>

\* ------------------------------------------- direct TokenManager calls

\* What jwt.decode makes of an access token: it does not decode ("bad"),
\* decodes without exp claim ("noexp"), or decodes with the claim exp.
ExpClaims == {TOKEN_REFRESH_MARGIN, MaxTime + TOKEN_REFRESH_MARGIN + 1}

JwtClaims(tk) ==
    IF tk = None THEN {[jwt |-> "bad", exp |-> None]}
    ELSE {[jwt |-> "bad", exp |-> None], [jwt |-> "noexp", exp |-> None]}
            \cup {[jwt |-> "exp", exp |-> e] : e \in ExpClaims}

\* The token data a caller can hand to set_token, as DTO or as dict.
TokenData(b) ==
    {[branch |-> b, kind |-> "ok", token |-> tk, refreshToken |-> rf,
      validTill |-> vt, jwt |-> c.jwt, exp |-> c.exp] :
        tk \in 0..MaxTMToken, rf \in 0..MaxTMToken,
        vt \in 0..(MaxTime + TOKEN_REFRESH_MARGIN + 1),
        c \in {[jwt |-> "bad", exp |-> None], [jwt |-> "noexp", exp |-> None]}
                \cup {[jwt |-> "exp", exp |-> e] : e \in ExpClaims}}

\* The DTOs a caller can hand to set_token.
DtoInputs == {d \in TokenData("dto") : [jwt |-> d.jwt, exp |-> d.exp] \in JwtClaims(d.token)}

\* The dicts a caller can hand to set_token.
DictInputs == {d \in TokenData("dict") : [jwt |-> d.jwt, exp |-> d.exp] \in JwtClaims(d.token)}

NoInput ==
    [branch |-> "none", kind |-> "none", token |-> None, refreshToken |-> None,
     validTill |-> None, jwt |-> "bad", exp |-> None]

\* threading.Lock.acquire: it succeeds only while the lock is not held, by
\* whichever thread, the acquiring one included.
LockAcquire(held) == ~held

\* `with self._lock` of a TokenManager operation; the operation releases the
\* lock when it returns.
TMLockAcquired == LockAcquire(tmLockHeld)

TMSetToken ==
    /\ TMLockAcquired
    /\ \E d \in DtoInputs :
        /\ tm' = SetTokenDto(d)
        /\ tmIn' = d
    /\ tmRes' = "none"
    /\ tmClears' = 0
    /\ UNCHANGED <<now, tmLockHeld, cfgVars, glVars, thVars>>

TMSetTokenDict ==
    /\ TMLockAcquired
    /\ \E d \in DictInputs :
        /\ tm' = SetTokenDict(tm, d)
        /\ tmIn' = d
    /\ tmRes' = "none"
    /\ tmClears' = 0
    /\ UNCHANGED <<now, tmLockHeld, cfgVars, glVars, thVars>>

\* set_token with an argument that is neither DTO nor dict: inside its
\* `with self._lock` it calls _clear_tokens(), whose clear_tokens() enters
\* `with self._lock` again.  If the inner acquire succeeds the fields are
\* cleared and the call returns; otherwise the caller waits for the lock it
\* holds itself, the fields stay as they are and the lock stays held.
TMSetTokenUnsupported ==
    /\ TMLockAcquired
    /\ IF LockAcquire(TRUE)
       THEN /\ tm' = ClearTokens
            /\ tmIn' = NoInput
            /\ tmClears' = 0
            /\ UNCHANGED tmLockHeld
       ELSE /\ tmLockHeld' = TRUE
            /\ UNCHANGED <<tm, tmIn, tmClears>>
    /\ tmRes' = "none"
    /\ UNCHANGED <<now, cfgVars, glVars, thVars>>

TMClearTokens ==
    /\ TMLockAcquired
    /\ tmClears < MaxClears
    /\ tm' = ClearTokens
    /\ tmIn' = NoInput
    /\ tmRes' = "none"
    /\ tmClears' = tmClears + 1
    /\ UNCHANGED <<now, tmLockHeld, cfgVars, glVars, thVars>>

TMIsTokenExpiring ==
    /\ TMLockAcquired
    /\ tmRes' = IF IsTokenExpiring(tm, now) THEN "yes" ELSE "no"
    /\ UNCHANGED <<tm, now, tmIn, tmClears, tmLockHeld, cfgVars, glVars, thVars>>

\* ---------------------------------------------------------- specifications

IdleThreads ==
    /\ pc = [t \in Threads |-> "idle"]
    /\ op = [t \in Threads |-> "none"]
    /\ attempt = [t \in Threads |-> 0]
    /\ hdr = [t \in Threads |-> None]
    /\ calls = [t \in Threads |-> 0]
    /\ all401 = [t \in Threads |-> TRUE]
    /\ last = [t \in Threads |-> "none"]
    /\ rejected = [t \in Threads |-> FALSE]
    /\ ret = [t \in Threads |-> InitRet]
    /\ rresp = [t \in Threads |-> NoResp]
    /\ lresp = [t \in Threads |-> NoResp]
    /\ res = [t \in Threads |-> NoRes]

FreshService ==
    /\ tm = EmptyStore
    /\ now = 0
    /\ tmRes = "none"
    /\ tmIn = NoInput
    /\ tmClears = 0
    /\ tmLockHeld = FALSE
    /\ authLock = None
    /\ issued = 0
    /\ ops = 0
    /\ handed = None
    /\ firstLogin = NoResp
    /\ loginCount = 0

DefaultConfig ==
    /\ hasUser = TRUE
    /\ hasPass = TRUE
    /\ raiseFlag = FALSE
    /\ retryLimit = AUTH_RETRY_LIMIT

\* One caller thread, every configuration, every answer of the servers.
Caller == {1}

Init ==
    /\ FreshService
    /\ IdleThreads
    /\ variant \in {"typed", "guid"}
    /\ hasUser \in BOOLEAN
    /\ hasPass \in BOOLEAN
    /\ raiseFlag \in BOOLEAN
    /\ retryLimit \in 0..MaxRetryLimit

Next ==
    \/ Tick
    \/ \E t \in Caller :
        \/ StartGvt(t)
        \/ StartRequest(t)
        \/ Enter(t)
        \/ CheckExpiring(t)
        \/ RefreshSend(t, AuthResponses)
        \/ RefreshDone(t)
        \/ LoginSend(t, AuthResponses)
        \/ LoginDone(t)
        \/ GetAccessToken(t)
        \/ HttpCall(t, ResourceStatuses)

Spec == Init /\ [][Next]_vars

\* Concurrent callers of one client with credentials and the default limits.
InitConc ==
    /\ FreshService
    /\ IdleThreads
    /\ variant \in {"typed", "guid"}
    /\ DefaultConfig

NextConc ==
    \E t \in Threads :
        \/ StartGvt(t)
        \/ StartRequest(t)
        \/ Enter(t)
        \/ CheckExpiring(t)
        \/ RefreshSend(t, ConcResponses)
        \/ RefreshDone(t)
        \/ LoginSend(t, ConcResponses)
        \/ LoginDoneQuiet(t)
        \/ GetAccessToken(t)
        \/ HttpCallQuiet(t, ConcStatuses)

SpecConc == InitConc /\ [][NextConc]_vars

\* All threads call get_valid_token at once, with or without credentials,
\* and the identity server answers in every way it can.
InitLive ==
    /\ FreshService
    /\ variant \in {"typed", "guid"}
    /\ hasUser \in BOOLEAN
    /\ hasPass \in BOOLEAN
    /\ raiseFlag = FALSE
    /\ retryLimit = AUTH_RETRY_LIMIT
    /\ pc = [t \in Threads |-> "gvt_lock"]
    /\ op = [t \in Threads |-> "gvt"]
    /\ attempt = [t \in Threads |-> 0]
    /\ hdr = [t \in Threads |-> None]
    /\ calls = [t \in Threads |-> 0]
    /\ all401 = [t \in Threads |-> TRUE]
    /\ last = [t \in Threads |-> "none"]
    /\ rejected = [t \in Threads |-> FALSE]
    /\ ret = [t \in Threads |-> InitRet]
    /\ rresp = [t \in Threads |-> NoResp]
    /\ lresp = [t \in Threads |-> NoResp]
    /\ res = [t \in Threads |-> NoRes]

\* The steps of thread t inside get_valid_token once it has the lock: the
\* thread keeps running, and every login or refresh request is answered or
\* fails.
GvtStep(t) ==
    \/ CheckExpiring(t)
    \/ RefreshSend(t, AuthResponses)
    \/ RefreshDone(t)
    \/ LoginSend(t, AuthResponses)
    \/ LoginDoneQuiet(t)
    \/ GetAccessToken(t)

NextLive ==
    \E t \in Threads :
        \/ Enter(t)
        \/ GvtStep(t)

\* Fair scheduling: a thread waiting for the service lock gets it if it is
\* free again and again, and a thread inside get_valid_token keeps taking
\* steps.
Fairness == \A t \in Threads : SF_vars(Enter(t)) /\ WF_vars(GvtStep(t))

SpecLive == InitLive /\ [][NextLive]_vars /\ Fairness

\* All threads call get_valid_token at once on a fresh service.
InitHerd ==
    /\ FreshService
    /\ variant \in {"typed", "guid"}
    /\ DefaultConfig
    /\ pc = [t \in Threads |-> "gvt_lock"]
    /\ op = [t \in Threads |-> "gvt"]
    /\ attempt = [t \in Threads |-> 0]
    /\ hdr = [t \in Threads |-> None]
    /\ calls = [t \in Threads |-> 0]
    /\ all401 = [t \in Threads |-> TRUE]
    /\ last = [t \in Threads |-> "none"]
    /\ rejected = [t \in Threads |-> FALSE]
    /\ ret = [t \in Threads |-> InitRet]
    /\ rresp = [t \in Threads |-> NoResp]
    /\ lresp = [t \in Threads |-> NoResp]
    /\ res = [t \in Threads |-> NoRes]

NextHerd ==
    \/ Tick
    \/ \E t \in Threads :
        \/ Enter(t)
        \/ CheckExpiring(t)
        \/ RefreshSend(t, AuthResponses)
        \/ RefreshDone(t)
        \/ LoginSendObserved(t, AuthResponses)
        \/ LoginDone(t)
        \/ GetAccessToken(t)

SpecHerd == InitHerd /\ [][NextHerd]_vars

\* The resource server's answers after it has invalidated a token.
InvalStatuses == {"s200", "s401", "s403"}

\* All threads of one client are about to send the first attempt of a
\* request with the same cached token, the first the server issued, copied
\* from the store by the cached path of get_valid_token.
InitInval ==
    /\ tm = [access |-> 1, refresh |-> 1, expires |-> TOKEN_REFRESH_MARGIN + 1]
    /\ now = 0
    /\ tmRes = "none"
    /\ tmIn = NoInput
    /\ tmClears = 0
    /\ tmLockHeld = FALSE
    /\ authLock = None
    /\ issued = 1
    /\ ops = NumThreads
    /\ handed = 1
    /\ firstLogin = NoResp
    /\ loginCount = 0
    /\ variant \in {"typed", "guid"}
    /\ DefaultConfig
    /\ pc = [t \in Threads |-> "http"]
    /\ op = [t \in Threads |-> "req"]
    /\ attempt = [t \in Threads |-> 0]
    /\ hdr = [t \in Threads |-> 1]
    /\ calls = [t \in Threads |-> 0]
    /\ all401 = [t \in Threads |-> TRUE]
    /\ last = [t \in Threads |-> "none"]
    /\ rejected = [t \in Threads |-> FALSE]
    /\ ret = [t \in Threads |-> RetToken(1)]
    /\ rresp = [t \in Threads |-> NoResp]
    /\ lresp = [t \in Threads |-> NoResp]
    /\ res = [t \in Threads |-> NoRes]

NextInval ==
    \E t \in Threads :
        \/ HttpCall(t, InvalStatuses)
        \/ Enter(t)
        \/ CheckExpiring(t)
        \/ RefreshSend(t, ConcResponses)
        \/ RefreshDone(t)
        \/ LoginSendObserved(t, ConcResponses)
        \/ LoginDone(t)
        \/ GetAccessToken(t)

SpecInval == InitInval /\ [][NextInval]_vars

\* The TokenManager alone, called directly.
InitTM ==
    /\ FreshService
    /\ IdleThreads
    /\ variant = "typed"
    /\ DefaultConfig

NextTM ==
    \/ Tick
    \/ TMSetToken
    \/ TMSetTokenDict
    \/ TMSetTokenUnsupported
    \/ TMClearTokens
    \/ TMIsTokenExpiring

SpecTM == InitTM /\ [][NextTM]_vars

\* ------------------------------------------------------------------ claims

\* C1: a request whose every HTTP answer was 401 makes exactly
\* retryLimit + 1 resource calls and then returns or raises, never more,
\* for every retry limit of the run.
C1_RetryBoundOn401 ==
    \A t \in Threads :
        (op[t] = "req" /\ all401[t]) =>
            /\ calls[t] <= retryLimit + 1
            /\ (pc[t] = "idle" => calls[t] = retryLimit + 1 /\ res[t].kind # "none")

\* A finished request of a client with credentials and the default limit:
\* every answer was 401, two resource calls were made.
C1_Witness ==
    \E t \in Threads :
        /\ op[t] = "req" /\ pc[t] = "idle" /\ all401[t]
        /\ Configured /\ retryLimit = AUTH_RETRY_LIMIT
        /\ calls[t] = 2

\* C2: inside a request, an error raised by get_valid_token ends the request
\* with that error, and a resource call is prepared without an Authorization
\* header only when no credentials are configured.
C2_AuthErrorsSurface ==
    \A t \in Threads :
        op[t] = "req" =>
            /\ (ret[t].kind = "raise" =>
                    pc[t] = "idle" /\ res[t] = [kind |-> "raise", what |-> ret[t].err])
            /\ (pc[t] = "http" /\ hdr[t] = None => ~Configured)

AllReturned == \A t \in Threads : pc[t] = "idle"

\* The first login answered with a token that is still outside the refresh
\* margin.
FirstLoginUsable ==
    /\ firstLogin.kind = "ok"
    /\ firstLogin.token # None
    /\ firstLogin.validTill # None
    /\ now + TOKEN_REFRESH_MARGIN < firstLogin.validTill

C4_SameOrNewerToken ==
    handed # None => (tm.access # None /\ tm.access >= handed)

\* C4, amended: once get_valid_token has returned a token, the store holds
\* that token, a newer one, or none; never an older one.
C4_NeverOlderToken ==
    handed # None => (tm.access = None \/ tm.access >= handed)

\* A token was handed out and the store holds a newer one.
C4_Witness == handed # None /\ tm.access # None /\ tm.access > handed

\* C5: without both a username and a password no thread ever gets past the
\* credentials check, no login or refresh request is ever sent or answered,
\* and every get_valid_token call returns None.
C5_AnonymousNeverAuthenticates ==
    ~(hasUser /\ hasPass) =>
        /\ issued = 0
        /\ \A t \in Threads :
            /\ pc[t] \in {"idle", "gvt_lock", "http"}
            /\ rresp[t] = NoResp
            /\ lresp[t] = NoResp
            /\ ret[t].kind \in {"init", "none"}

\* A client with a username but no password finished a request whose first
\* attempt was rejected and retried.
C5_Witness ==
    /\ hasUser /\ ~hasPass
    /\ \E t \in Threads :
        /\ op[t] = "req" /\ pc[t] = "idle"
        /\ calls[t] = 2 /\ res[t].what = "s403"
        /\ ret[t].kind = "none"

\* C6: is_token_expiring answers true iff the access token is absent, the
\* expiry is absent, or now >= expiresAt - TOKEN_REFRESH_MARGIN.
C6_MarginCorrect ==
    tmRes # "none" =>
        ((tmRes = "yes") <=>
            \/ tm.access = None
            \/ tm.expires = None
            \/ now >= tm.expires - TOKEN_REFRESH_MARGIN)

\* is_token_expiring answered true exactly on the margin.
C6_Witness ==
    /\ tmRes = "yes"
    /\ tm.access # None
    /\ tm.expires # None
    /\ now = tm.expires - TOKEN_REFRESH_MARGIN

\* C7: whenever get_valid_token is about to return the stored token, the
\* store holds an expiry for it that lies beyond now + TOKEN_REFRESH_MARGIN.
C7_NeverInsideMargin ==
    \A t \in Threads :
        (pc[t] = "gvt_ret" /\ tm.access # None) =>
            (tm.expires # None /\ now + TOKEN_REFRESH_MARGIN < tm.expires)

\* C8: with credentials configured no get_valid_token call returns None.
C8_NeverAbsentToken ==
    Configured => \A t \in Threads : ret[t].kind # "none"

\* C9: in the typed service, the step that handles a refresh request failed
\* by a connection error or timeout ends get_valid_token with NetworkError,
\* and no login request was sent in that call.
C9_RefreshNetworkFailure ==
    [][\A t \in Threads :
        (/\ variant = "typed"
         /\ pc[t] = "refresh_wait"
         /\ rresp[t].kind \in {"conn", "timeout"}
         /\ pc'[t] # "refresh_wait")
        => (/\ ret'[t] = RetRaise("NetworkError")
            /\ pc'[t] = "idle"
            /\ lresp[t] = NoResp
            /\ lresp'[t] = NoResp)]_vars

\* The typed service raised NetworkError out of a refresh: the store, which
\* a failed login would have cleared, still holds the refresh token.
C9_Witness ==
    /\ variant = "typed"
    /\ \E t \in Threads :
        /\ pc[t] = "idle"
        /\ ret[t] = RetRaise("NetworkError")
        /\ tm.refresh # None

\* C10: in the typed service, when the refresh was answered 401 or 403 and
\* the login that followed delivered a token, get_valid_token returns that
\* token; TokenExpiredError never reaches the caller.
C10_FallbackLoginReturnsItsToken ==
    \A t \in Threads :
        /\ ret[t].err # "TokenExpiredError"
        /\ (/\ variant = "typed"
            /\ pc[t] = "gvt_ret"
            /\ rresp[t].kind \in {"s401", "s403"}
            /\ lresp[t].kind = "ok"
            /\ lresp[t].token # None)
           => tm.access = lresp[t].token

\* C11: in the typed service, the step that handles the login answer maps
\* it as follows: 401 raises InvalidCredentialsError; 403 and every other
\* non-200 status raise AuthenticationError carrying that status code; a 200
\* with an unparseable body raises AuthenticationError; and the store takes
\* a token only from a 200 with a parseable payload.
C11_LoginOutcomeMapping ==
    [][\A t \in Threads :
        (/\ variant = "typed"
         /\ pc[t] = "login_wait"
         /\ pc'[t] # "login_wait")
        => LET k == lresp[t].kind
           IN /\ k = "s401" => ret'[t].kind = "raise"
                               /\ ret'[t].err = "InvalidCredentialsError"
              /\ k \in {"s403", "s500"} =>
                    ret'[t] = RetRaiseStatus("AuthenticationError", StatusCode(k))
              /\ k \in {"badjson", "badschema"} =>
                    ret'[t].kind = "raise" /\ ret'[t].err = "AuthenticationError"
              /\ k # "ok" => tm'.access = None \/ tm' = tm
              /\ k = "ok" => tm' = SetTokenDto(lresp[t]) /\ pc'[t] = "gvt_ret"]_vars

\* The typed service raised AuthenticationError with status 500 out of a
\* login: no token was issued before, so no refresh request was ever sent.
C11_Witness ==
    /\ variant = "typed"
    /\ \E t \in Threads :
        /\ pc[t] = "idle"
        /\ ret[t] = RetRaiseStatus("AuthenticationError", 500)
        /\ issued = 0

\* C12: in both services, the step that handles a login request failed by a
\* connection error or timeout ends get_valid_token with NetworkError, and
\* the step that handles such a refresh failure never yields
\* AuthenticationError or InvalidCredentialsError.
C12_NetworkFailureNeverConverted ==
    [][\A t \in Threads :
        /\ (/\ pc[t] = "login_wait"
            /\ lresp[t].kind \in {"conn", "timeout"}
            /\ pc'[t] # "login_wait")
           => ret'[t] = RetRaise("NetworkError")
        /\ (/\ pc[t] = "refresh_wait"
            /\ rresp[t].kind \in {"conn", "timeout"}
            /\ pc'[t] # "refresh_wait")
           => ret'[t].err \notin {"AuthenticationError", "InvalidCredentialsError"}]_vars

\* C13: a resource call answered with a status other than 2xx, 401 and 403
\* ends the request at once, whatever the attempt: the response is returned
\* when raise_on_unexpected_status is false, an HTTP status error is raised
\* when it is true.
C13_OtherStatusNeverRetried ==
    [][\A t \in Threads :
        (pc[t] = "http" /\ pc'[t] # "http" /\ last'[t] = "s500") =>
            /\ pc'[t] = "idle"
            /\ res'[t] = IF raiseFlag
                         THEN [kind |-> "raise", what |-> "HTTPStatusError"]
                         ELSE [kind |-> "return", what |-> "s500"]]_vars

\* C14: once the login endpoint has answered 401 within a request, no
\* further login request is sent within that request.
C14_RejectedLoginNotRepeated ==
    \A t \in Threads :
        (op[t] = "req" /\ rejected[t]) => pc[t] # "login_wait"

\* C15: while a request goes on after an attempt answered 401 or 403, the
\* store is empty (access token, refresh token and expiry absent) until the
\* retry's get_valid_token reaches its login, the store's access token is
\* absent or differs from the one of the rejected attempt's header for the
\* whole of that get_valid_token call, and no refresh request is sent in it.
C15_ClearOn401 ==
    \A t \in Threads :
        (op[t] = "req" /\ pc[t] \notin {"idle", "http"} /\ last[t] \in {"s401", "s403"}) =>
            /\ pc[t] \in {"gvt_lock", "gvt_check", "gvt_refresh", "gvt_login"}
                    => tm = EmptyStore
            /\ tm.access = None \/ tm.access # hdr[t]
            /\ pc[t] # "refresh_wait"

\* The retry after a rejected attempt that carried a token is about to log
\* in again on an empty store.
C15_Witness ==
    \E t \in Threads :
        /\ op[t] = "req" /\ pc[t] = "gvt_login"
        /\ last[t] = "s401" /\ attempt[t] = 1
        /\ hdr[t] # None
        /\ tm = EmptyStore

\* C16: the resource call of the last allowed attempt (attempt =
\* retryLimit), answered 401 or 403, ends the request: no further call, the
\* token store untouched, that response returned when
\* raise_on_unexpected_status is false and an HTTP status error raised when
\* it is true.
C16_FinalAttemptOutcome ==
    [][\A t \in Threads :
        (/\ pc[t] = "http"
         /\ calls'[t] = calls[t] + 1
         /\ attempt[t] = retryLimit
         /\ last'[t] \in {"s401", "s403"})
        => /\ pc'[t] = "idle"
           /\ tm' = tm
           /\ res'[t] = IF raiseFlag
                        THEN [kind |-> "raise", what |-> "HTTPStatusError"]
                        ELSE [kind |-> "return", what |-> last'[t]]]_vars

\* A request of a client with the default limit ended with the 403 of its
\* second attempt, the store still holding the token of that attempt.
C16_Witness ==
    \E t \in Threads :
        /\ op[t] = "req" /\ pc[t] = "idle"
        /\ retryLimit = AUTH_RETRY_LIMIT /\ attempt[t] = retryLimit
        /\ last[t] = "s403"
        /\ res[t] = [kind |-> "return", what |-> "s403"]
        /\ hdr[t] # None /\ tm.access = hdr[t]

\* The threads inside a login or refresh network call.
InAuthCall == {t \in Threads : pc[t] \in {"refresh_wait", "login_wait"}}

\* C17: in every reachable state at most one thread is inside a login or
\* refresh network call, and that thread holds the service lock.
C17_MutualExclusion ==
    /\ Cardinality(InAuthCall) <= 1
    /\ \A t \in InAuthCall : authLock = t

\* One thread is inside the login call while another waits for the lock.
C17_Witness ==
    \E t, u \in Threads :
        /\ t # u
        /\ pc[t] = "login_wait"
        /\ pc[u] = "gvt_lock"

\* C18: after set_token(data) the store holds exactly what the data
\* determines: the data's token and refresh token, and as expiry the data's
\* validTill, or without one nothing but the token's own exp claim or None;
\* no expiry of the previous token survives.
C18_SetTokenReplacesAll ==
    tmIn.branch # "none" =>
        /\ tm.access = tmIn.token
        /\ tm.refresh = tmIn.refreshToken
        /\ IF tmIn.validTill # None
           THEN tm.expires = tmIn.validTill
           ELSE tm.expires \in
                    {None} \cup (IF tmIn.token # None /\ tmIn.jwt = "exp"
                                 THEN {tmIn.exp} ELSE {})

\* C19: after set_token with the DTO of a login or refresh response that
\* carries an access token and no validTill, the stored expiry is the exp
\* claim of the token when it has one, and is absent only when the token
\* does not decode.
C19_ExpiryFallback ==
    (tmIn.branch = "dto" /\ tmIn.token # None /\ tmIn.validTill = None) =>
        /\ tmIn.jwt = "exp" => tm.expires = tmIn.exp
        /\ tm.expires = None => tmIn.jwt = "bad"

\* C20: the step that handles the answer to a refresh request that did not
\* succeed (401/403, another non-200 status, a 200 with an unparseable body,
\* a network error) leaves the store with no access token, no refresh token
\* and no expiry.
C20_ClearedOnFailedRefresh ==
    [][\A t \in Threads :
        (/\ pc[t] = "refresh_wait"
         /\ pc'[t] # "refresh_wait"
         /\ rresp[t].kind # "ok")
        => tm' = EmptyStore]_vars

\* C21: clear_tokens is idempotent: after any number of clear_tokens calls
\* in a row, the first of them made on any store and the later ones on the
\* store it emptied, the call has returned and access token, refresh token
\* and expiry are all absent, so a second clear changes nothing.
C21_ClearIdempotent ==
    tmClears >= 1 =>
        /\ tm.access = None
        /\ tm.refresh = None
        /\ tm.expires = None

\* C21 witness: clear_tokens has run twice in a row, the second time on the
\* store the first one emptied.
C21_Witness ==
    /\ tmClears = 2
    /\ tm = EmptyStore
    /\ now > 0

\* C29: every TokenManager operation returns and leaves the store lock
\* free, whatever its input; between two operations the lock is never held.
C29_StoreLockReleased == ~tmLockHeld

\* C22: a request thread reaches the resource call of an attempt only out of
\* a get_valid_token call made for that attempt, and the request then
\* carries an Authorization header iff that call returned a token, the
\* header's token being the value the call returned.
C22_HeaderIsThisAttemptsToken ==
    [][\A t \in Threads :
          (pc[t] # "http" /\ pc'[t] = "http") =>
              /\ pc[t] \in {"gvt_lock", "gvt_check", "gvt_refresh", "refresh_wait",
                            "gvt_login", "login_wait", "gvt_ret"}
              /\ (hdr'[t] # None) <=> (ret'[t].kind = "tok")
              /\ ret'[t].kind = "tok" => hdr'[t] = ret'[t].tok]_vars

\* C22 witness: the retry of a request is about to be sent with the second
\* token the server issued, the first attempt having carried a header too.
C22_Witness ==
    /\ op[1] = "req"
    /\ pc[1] = "http"
    /\ attempt[1] = 1
    /\ last[1] = "s401"
    /\ hdr[1] = 2
    /\ ret[1].kind = "tok"
    /\ ret[1].tok = 2

\* C23: the GUID-scoped get_valid_token never ends by raising its
\* AuthenticationError: when refresh and login both fail, the call returns
\* None.
C23_GuidFailureReturnsNone ==
    \A t \in Threads :
        variant = "guid" =>
            ~(ret[t].kind = "raise" /\ ret[t].err = "AuthenticationError")

\* C24: the retry loop terminates at its final attempt at the latest and the
\* RuntimeError behind it is never raised: the loop variable never exceeds
\* AUTH_RETRY_LIMIT, every resource call either ends the request or moves
\* the loop on by one, and a request that ends at a resource call returns
\* that call's response or raises that call's transport or status error on
\* the final attempt.
C24_LoopEndsAtLastAttempt ==
    [][\A t \in Threads :
          /\ res'[t].what # "RuntimeError"
          /\ attempt'[t] <= retryLimit
          /\ (pc[t] = "http" /\ pc'[t] # "http") =>
                \/ /\ pc'[t] = "gvt_lock"
                   /\ attempt'[t] = attempt[t] + 1
                \/ /\ pc'[t] = "idle"
                   /\ res'[t].kind = "return"
                   /\ res'[t].what = last'[t]
                \/ /\ pc'[t] = "idle"
                   /\ res'[t].kind = "raise"
                   /\ attempt[t] = retryLimit
                   /\ \/ res'[t].what = "HTTPError" /\ last'[t] = "neterr"
                      \/ res'[t].what = "HTTPStatusError"
                            /\ last'[t] \in {"s401", "s403", "s500"}]_vars

\* C24 witness: a request has ended on its second and final attempt by
\* raising the transport error of that attempt.
C24_Witness ==
    /\ op[1] = "req"
    /\ pc[1] = "idle"
    /\ retryLimit = 1
    /\ attempt[1] = 1
    /\ calls[1] = 2
    /\ last[1] = "neterr"
    /\ res[1] = [kind |-> "raise", what |-> "HTTPError"]

\* C25: one _make_authenticated_request call makes at most
\* AUTH_RETRY_LIMIT + 1 resource HTTP calls and at most AUTH_RETRY_LIMIT + 1
\* get_valid_token calls: get_valid_token is entered once when the request
\* starts and once after each resource call that does not end the request,
\* and the resource call of loop iteration a is call number a + 1.
C25_TotalAttemptsBound ==
    [][\A t \in Threads :
          op'[t] = "req" =>
              /\ calls'[t] <= retryLimit + 1
              /\ attempt'[t] + 1 <= retryLimit + 1
              /\ (pc[t] # "gvt_lock" /\ pc'[t] = "gvt_lock") =>
                    attempt'[t] = IF pc[t] = "idle" THEN 0 ELSE attempt[t] + 1
              /\ calls'[t] # calls[t] =>
                    \/ pc[t] = "idle" /\ calls'[t] = 0
                    \/ pc[t] = "http" /\ calls'[t] = attempt[t] + 1]_vars

\* C25 witness: a request has used its whole budget, two resource calls and
\* two get_valid_token calls, under the strict setting.
C25_Witness ==
    /\ op[1] = "req"
    /\ pc[1] = "idle"
    /\ raiseFlag
    /\ retryLimit = 1
    /\ attempt[1] = 1
    /\ calls[1] = 2
    /\ last[1] = "s500"

\* The thread is on the cached path of get_valid_token: the expiry check
\* was negative and neither a refresh nor a login request has been sent.
OnCachedPath(t) ==
    /\ pc[t] = "gvt_ret"
    /\ rresp[t] = NoResp
    /\ lresp[t] = NoResp

\* C26: a configured get_valid_token that finds a token outside the refresh
\* margin goes straight to returning the stored access token: it sends no
\* refresh and no login request and leaves access token, refresh token and
\* expiry as they are.  The store changes only in a step of a
\* get_valid_token call that found the token expiring (the handling of its
\* refresh or login answer) or in an executor's clear after a non-final
\* 401/403.
C26_LazyRefresh ==
    [][/\ \A t \in Threads :
            /\ (/\ pc[t] = "gvt_check"
                /\ pc'[t] # "gvt_check"
                /\ tm.access # None
                /\ tm.expires # None
                /\ tm.expires > now + TOKEN_REFRESH_MARGIN)
                    => /\ OnCachedPath(t)'
                       /\ tm' = tm
                       /\ issued' = issued
            /\ (OnCachedPath(t) /\ pc'[t] # "gvt_ret")
                    => /\ ret'[t].kind = "tok"
                       /\ ret'[t].tok = tm.access
                       /\ tm' = tm
                       /\ issued' = issued
       /\ tm' # tm =>
            \E t \in Threads :
                \/ /\ pc[t] \in {"refresh_wait", "login_wait"}
                   /\ pc'[t] # pc[t]
                \/ /\ pc[t] = "http"
                   /\ pc'[t] = "gvt_lock"
                   /\ last'[t] \in {"s401", "s403"}
                   /\ tm' = EmptyStore]_vars

\* C26 witness: the second get_valid_token call of the run is on the cached
\* path, about to return the token its predecessor obtained, a minute after
\* it was stored.
C26_Witness ==
    /\ op[1] = "gvt"
    /\ OnCachedPath(1)
    /\ ops = 2
    /\ now = 1
    /\ issued = 1
    /\ tm.access = 1
    /\ tm.refresh = 1

\* C27: a network-level failure of the resource call is raised to the caller
\* when it happens on the final attempt; on an earlier attempt it moves the
\* loop on by one attempt, leaves the token store as it is, and the request
\* stays within its AUTH_RETRY_LIMIT + 1 resource calls.
C27_NetworkFailureOfResourceCall ==
    [][\A t \in Threads :
          (pc[t] = "http" /\ pc'[t] # "http" /\ last'[t] = "neterr") =>
              IF attempt[t] >= retryLimit
              THEN /\ pc'[t] = "idle"
                   /\ res'[t] = [kind |-> "raise", what |-> "HTTPError"]
                   /\ tm' = tm
              ELSE /\ pc'[t] = "gvt_lock"
                   /\ attempt'[t] = attempt[t] + 1
                   /\ calls'[t] <= retryLimit
                   /\ res'[t] = NoRes
                   /\ tm' = tm]_vars

\* C27 witness: the first attempt of a request, sent with the cached token,
\* failed at network level; the token is still stored and the second
\* attempt is about to ask for it.
C27_Witness ==
    /\ op[1] = "req"
    /\ pc[1] = "gvt_lock"
    /\ attempt[1] = 1
    /\ last[1] = "neterr"
    /\ hdr[1] # None
    /\ tm.access = hdr[1]

\* The positions of a thread between acquiring and releasing the service
\* lock.
UnderAuthLock ==
    {"gvt_check", "gvt_refresh", "refresh_wait", "gvt_login", "login_wait", "gvt_ret"}

\* C28: the service lock is held only by a thread inside get_valid_token,
\* so every exit path of the call has released it; and under fair
\* scheduling, with every login and refresh request answered, a thread
\* that waits for the lock at the start of get_valid_token eventually leaves
\* the call, with a return value or an exception.
C28_ProgressUnderContention ==
    /\ [](\A t \in Threads : authLock = t => pc[t] \in UnderAuthLock)
    /\ \A t \in Threads : (pc[t] = "gvt_lock") ~> (pc[t] \in {"idle", "http"})

\* C28 witness: thread 1 waits for the service lock at the start of
\* get_valid_token while thread 2 holds it for a login request that is about
\* to fail at network level.
C28_Witness ==
    /\ pc[1] = "gvt_lock"
    /\ authLock = 2
    /\ pc[2] = "login_wait"
    /\ lresp[2].kind = "conn"

\* C30: when every thread sent the same cached token and was answered
\* 401/403 on its first, non-final attempt, and the first login that follows
\* delivers a token outside the refresh margin, that login is the only one:
\* no thread's clear removes the new token, so no retry logs in again.
C30_NoThunderingHerd ==
    (FirstLoginUsable /\ \A t \in Threads : attempt[t] = 1 /\ last[t] \in {"s401", "s403"})
        => loginCount <= 1

====
